---- MODULE Spec2Model ----
(***************************************************************************)
(* The Pong frame loop of src/main.js: two paddles moved from keyboard     *)
(* state, balls that bounce off paddles and the top/bottom walls, reset    *)
(* past the side walls, and the requestAnimationFrame driver.              *)
(*                                                                         *)
(* src/main.js holds two variants of the script (lines 1-543 and 544-966). *)
(* `variant` selects which one runs; they differ in ACCELERATION, in the   *)
(* decorations pushed before the first ball, in the colours given to the   *)
(* constructors and in the loop of drawScene.                              *)
(*                                                                         *)
(* Numbers.  JavaScript numbers are modelled as exact rationals in fixed   *)
(* point: a length, a coordinate or a velocity component v is stored as    *)
(* the integer v * Scale.  Scale is chosen so that every value the model   *)
(* reaches is a whole number of 1/Scale; a frame whose multiplication by   *)
(* ACCELERATION would not be exact is outside the model (Exact).           *)
(* Time (seconds) is stored in ticks of 1/TimeDen second, Math.random()    *)
(* results in units of 1/RandDen.                                          *)
(***************************************************************************)
EXTENDS Integers, Sequences, FiniteSets, TLC

VARIABLES
    variant,    \* 1: lines 1-543 of src/main.js, 2: lines 544-966
    drawables,  \* var drawables = []: the entity list, in push order
    then,       \* var then: time of the previous frame, in ticks
    pending,    \* number of drawScene callbacks requestAnimationFrame holds
    frames,     \* number of drawScene invocations so far
    frameLog,   \* the moveUpdate and draw calls of the last invocation, in order
    presses,    \* number of backtick keypress events handled so far
    thrown,     \* the error the last handler raised, "none" if it returned
    registered, \* the calls of registerCollisionObject so far, and the last one
    hist,       \* for each entity that is a ball, what its last moveUpdate did
    lastEvent   \* for each key, the last keyboard event dispatched for it

vars == <<variant, drawables, then, pending, frames, frameLog, presses, thrown,
          registered, hist, lastEvent>>

-----------------------------------------------------------------------------
(* Bounds of the model *)

\* accelerations (of the 1.01 variant) that stay exact in 1/Scale
MaxBounces == 2
\* drawScene invocations explored
MaxFrames == 4
\* balls in the entity list
MaxBalls == 2
\* length of a ball's collidable list when registerCollisionObject is called directly
MaxCollidables == 3
\* calls of registerCollisionObject
MaxRegisterCalls == 6

-----------------------------------------------------------------------------
(* Number representation *)

RECURSIVE Pow(_, _)
Pow(b, e) == IF e = 0 THEN 1 ELSE b * Pow(b, e - 1)

\* Math.random() returns r / RandDen, r \in 0 .. RandDen - 1
RandDen == 4
\* one tick is 1 / TimeDen second
TimeDen == 333
\* fixed point: 1 is stored as Scale
Scale == RandDen * Pow(100, MaxBounces)

-----------------------------------------------------------------------------
(* Constants of the script *)

\* canvas.clientWidth and canvas.clientHeight, in pixels
clientWidth == 40
clientHeight == 19

\* const POINT_SIZE = canvas.clientHeight * 0.025
POINT_SIZE == (clientHeight * 25 * Scale) \div 1000
\* const plankWidth = canvas.clientWidth * 0.025; plankHeight = clientHeight * 0.25
plankWidth == (clientWidth * 25 * Scale) \div 1000
plankHeight == (clientHeight * 25 * Scale) \div 100

\* PIXELS_PER_SEC * deltaTime, in whole pixels: PIXELS_PER_SEC is
\* canvas.clientWidth * 0.333 pixels per second and deltaTime is dt / TimeDen s.
\* The deltaTime values of the model (DeltaTimes) make it a whole number.
PixelsPerSecTimes(dt) == (clientWidth * 333 * dt) \div (1000 * TimeDen)

\* const ACCELERATION, as <<numerator, denominator>>
ACCELERATION == IF variant = 1 THEN <<11, 10>> ELSE <<101, 100>>

\* the keys the two paddles are constructed with
BoundKeys == {"w", "s", "o", "l"}
\* keys bound to the paddles: both keys of the first, the up key of the second
Keys == {"w", "s", "o"}
\* the key held and released while balls are spawned
PlayKeys == {"w"}
\* event.key of the backtick key
Backtick == "backtick"
\* the keys of keypress events the model delivers
PressKeys == {Backtick, "w"}
\* deltaTime values, in ticks: 0, and the time in which a paddle moves 19 pixels
DeltaTimes == {0, 475}
\* values Math.random() returns, in 1/RandDen: 0.5 and 0.75 for the direction,
\* 0 and 0.75 for the slope
RandomX == {2, 3}
RandomY == {0, 3}
\* triples of Math.random() values of one randomColor() call
RandomRGB == {<<0, 0, 0>>, <<3, 2, 1>>}

-----------------------------------------------------------------------------
(* class Drawable *)

\* randomColor(): [Math.random(), Math.random(), Math.random(), 1]
randomColor(rgb) == <<rgb[1], rgb[2], rgb[3], RandDen>>

\* randomMoveVector with both components drawn from [-0.5, 0.5)
randomMoveVectorBothDrawn(r1, r2) ==
    << ((r1 * 2 - RandDen) * Scale) \div (2 * RandDen),
       ((r2 * 2 - RandDen) * Scale) \div (2 * RandDen) >>

\* randomMoveVector(): [(Math.random() > 0.5 ? 1 : -1), ((Math.random() * 2) - 1) * 0.5]
randomMoveVector(r1, r2) ==
    << IF 2 * r1 > RandDen THEN Scale ELSE -Scale,
       ((r2 * 2 - RandDen) * Scale) \div (2 * RandDen) >>

\* the colours of the constructor calls, in 1/RandDen
Color(r, g, b, a) == <<r * RandDen, g * RandDen, b * RandDen, a * RandDen>>

\* an argument that is null or not passed
Undefined == <<>>

\* new Drawable(geometry, verticesNumber, type, translation, color):
\* translation || [0, 0], color || this.randomColor() (rnd: the Math.random()
\* values a call would return)
Drawable(class, translation, color, rnd) ==
    [class |-> class,
     translation |-> IF translation = Undefined THEN <<0, 0>> ELSE translation,
     moveVector |-> <<0, 0>>,
     color |-> IF color = Undefined THEN randomColor(rnd.rgb) ELSE color]

\* new Plank(geometry, verticesNumber, type, keys, translation, color):
\* moveVector [0, 1], keys || {up: 'w', down: 's'}, keysPressed {} (no key has an entry)
Plank(keys, translation, color, rnd) ==
    LET super == Drawable("Plank", translation, color, rnd)
    IN  [class |-> super.class, translation |-> super.translation,
         moveVector |-> <<0, Scale>>, color |-> super.color,
         keys |-> IF keys = Undefined THEN [up |-> "w", down |-> "s"] ELSE keys,
         keysPressed |-> [k \in {} |-> TRUE]]

\* new Ball(geometry, verticesNumber, type, translation, moveVector, color):
\* the first variant hands color to super, the second does not;
\* moveVector || this.randomMoveVector()
Ball(translation, moveVector, color, rnd) ==
    LET super == Drawable("Ball", translation, IF variant = 1 THEN color ELSE Undefined, rnd)
    IN  [class |-> super.class, translation |-> super.translation,
         moveVector |-> IF moveVector = Undefined
                        THEN randomMoveVector(rnd.x, rnd.y) ELSE moveVector,
         color |-> super.color,
         collidables |-> <<>>, isInsideCollidable |-> FALSE]

\* obj instanceof Drawable, for a value handed to registerCollisionObject:
\* [ref |-> i] is the entity drawables[i]; anything else is no Drawable
IsDrawableRef(obj, ds) ==
    /\ DOMAIN obj = {"ref"}
    /\ obj.ref \in 1 .. Len(ds)

\* getCollisionRange(): the plank-sized box anchored at the translation
getCollisionRange(d) ==
    [x |-> [min |-> d.translation[1], max |-> d.translation[1] + plankWidth],
     y |-> [min |-> d.translation[2], max |-> d.translation[2] + plankHeight]]

-----------------------------------------------------------------------------
(* class Plank *)

\* this.keysPressed[key] === true
Pressed(p, key) == key \in DOMAIN p.keysPressed /\ p.keysPressed[key]

\* moveUpdate with the second test chained by else
PlankMoveUpdateElse(p, dt) ==
    IF Pressed(p, p.keys.up)
    THEN [p EXCEPT !.translation[2] = @ + PixelsPerSecTimes(dt) * Scale]
    ELSE IF Pressed(p, p.keys.down)
    THEN [p EXCEPT !.translation[2] = @ - PixelsPerSecTimes(dt) * Scale]
    ELSE p

\* Plank.moveUpdate(deltaTime)
PlankMoveUpdate(p, dt) ==
    LET up == IF Pressed(p, p.keys.up)
              THEN [p EXCEPT !.translation[2] = @ + PixelsPerSecTimes(dt) * Scale]
              ELSE p
    IN  IF Pressed(up, up.keys.down)
        THEN [up EXCEPT !.translation[2] = @ - PixelsPerSecTimes(dt) * Scale]
        ELSE up

\* listeners that keep the events of the paddle's own two keys only
SetKeyOwn(p, key, value) ==
    IF key \in {p.keys.up, p.keys.down}
    THEN [p EXCEPT !.keysPressed =
            [k \in DOMAIN p.keysPressed \cup {key} |-> IF k = key THEN value ELSE p.keysPressed[k]]]
    ELSE p

\* the keydown and keyup listeners of one Plank: this.keysPressed[event.key] = value
SetKey(p, key, value) ==
    [p EXCEPT !.keysPressed =
        [k \in DOMAIN p.keysPressed \cup {key} |-> IF k = key THEN value ELSE p.keysPressed[k]]]

-----------------------------------------------------------------------------
(* class Ball *)

\* the value detectCollision returns when it returns null
Null == <<>>

\* the four comparisons of the loop of detectCollision for one collidable obj
Within(b, obj) ==
    LET range == getCollisionRange(obj)
        x == b.translation[1]
        y == b.translation[2]
        ballOffset == POINT_SIZE \div 2
    IN  /\ range.x.min - ballOffset <= x /\ x <= range.x.max + ballOffset
        /\ range.y.min - ballOffset <= y /\ y <= range.y.max + ballOffset

\* the test without the flag
OverlapsUnflagged(b, obj) == Within(b, obj)

\* the test of the loop of detectCollision for one collidable obj
Overlaps(b, obj) == ~b.isInsideCollidable /\ Within(b, obj)

\* detectCollision with the wall bounce skipped while the flag is true
detectCollisionWallFlag(ds, b, rnd) ==
    LET x == b.translation[1]
        y == b.translation[2]
    IN  IF \E i \in 1 .. Len(b.collidables) : Overlaps(b, ds[b.collidables[i]])
        THEN [modifiers |-> <<-1, 1>>, ball |-> b]
        ELSE IF ~b.isInsideCollidable /\ (y <= 0 \/ clientHeight * Scale <= y)
        THEN [modifiers |-> <<1, -1>>, ball |-> b]
        ELSE IF x <= 0 \/ clientWidth * Scale <= x
        THEN [modifiers |-> Null,
              ball |-> [b EXCEPT
                  !.translation = <<(clientWidth * Scale) \div 2, (clientHeight * Scale) \div 2>>,
                  !.moveVector = randomMoveVector(rnd.x, rnd.y),
                  !.color = randomColor(rnd.rgb)]]
        ELSE [modifiers |-> Null, ball |-> b]

\* detectCollision with the walls tested before the collidables
detectCollisionWallsFirst(ds, b, rnd) ==
    LET x == b.translation[1]
        y == b.translation[2]
    IN  IF y <= 0 \/ clientHeight * Scale <= y
        THEN [modifiers |-> <<1, -1>>, ball |-> b]
        ELSE IF \E i \in 1 .. Len(b.collidables) : Overlaps(b, ds[b.collidables[i]])
        THEN [modifiers |-> <<-1, 1>>, ball |-> b]
        ELSE IF x <= 0 \/ clientWidth * Scale <= x
        THEN [modifiers |-> Null,
              ball |-> [b EXCEPT
                  !.translation = <<(clientWidth * Scale) \div 2, (clientHeight * Scale) \div 2>>,
                  !.moveVector = randomMoveVector(rnd.x, rnd.y),
                  !.color = randomColor(rnd.rgb)]]
        ELSE [modifiers |-> Null, ball |-> b]

\* detectCollision with a reset that keeps the velocity
detectCollisionKeepVector(ds, b, rnd) ==
    LET x == b.translation[1]
        y == b.translation[2]
    IN  IF \E i \in 1 .. Len(b.collidables) : Overlaps(b, ds[b.collidables[i]])
        THEN [modifiers |-> <<-1, 1>>, ball |-> b]
        ELSE IF y <= 0 \/ clientHeight * Scale <= y
        THEN [modifiers |-> <<1, -1>>, ball |-> b]
        ELSE IF x <= 0 \/ clientWidth * Scale <= x
        THEN [modifiers |-> Null,
              ball |-> [b EXCEPT
                  !.translation = <<(clientWidth * Scale) \div 2, (clientHeight * Scale) \div 2>>,
                  !.color = randomColor(rnd.rgb)]]
        ELSE [modifiers |-> Null, ball |-> b]

\* Ball.detectCollision(): the modifiers it returns and the ball it leaves
\* (the side-wall case recentres the ball and draws a new vector and colour
\* from the Math.random() values rnd)
detectCollision(ds, b, rnd) ==
    LET x == b.translation[1]
        y == b.translation[2]
    IN  IF \E i \in 1 .. Len(b.collidables) : Overlaps(b, ds[b.collidables[i]])
        THEN [modifiers |-> <<-1, 1>>, ball |-> b]
        ELSE IF y <= 0 \/ clientHeight * Scale <= y
        THEN [modifiers |-> <<1, -1>>, ball |-> b]
        ELSE IF x <= 0 \/ clientWidth * Scale <= x
        THEN [modifiers |-> Null,
              ball |-> [b EXCEPT
                  !.translation = <<(clientWidth * Scale) \div 2, (clientHeight * Scale) \div 2>>,
                  !.moveVector = randomMoveVector(rnd.x, rnd.y),
                  !.color = randomColor(rnd.rgb)]]
        ELSE [modifiers |-> Null, ball |-> b]

\* stands for the Math.random() values of calls that are not made
NoRandom == [x |-> 0, y |-> 0, rgb |-> <<0, 0, 0>>]

\* whether detectCollision reads Math.random() for this ball: it does where it
\* recentres the ball, and the centre is no place where it does
Resamples(ds, b) == detectCollision(ds, b, NoRandom).ball # b

\* which return of detectCollision is taken
Outcome(ds, b) ==
    LET modifiers == detectCollision(ds, b, NoRandom).modifiers
    IN  IF modifiers = <<-1, 1>> THEN "paddle"
        ELSE IF modifiers = <<1, -1>> THEN "wall"
        ELSE IF Resamples(ds, b) THEN "reset"
        ELSE "none"

\* v * modifier * ACCELERATION is a whole number of 1/Scale
Exact(v) == (v * ACCELERATION[1]) % ACCELERATION[2] = 0

\* bounce that leaves the flag as it is when it applies modifiers
bounceNoFlag(b, modifiers) ==
    IF modifiers # Null
    THEN [b EXCEPT
            !.moveVector = << (b.moveVector[1] * modifiers[1] * ACCELERATION[1]) \div ACCELERATION[2],
                              (b.moveVector[2] * modifiers[2] * ACCELERATION[1]) \div ACCELERATION[2] >>]
    ELSE [b EXCEPT !.isInsideCollidable = FALSE]

\* bounce that sets the flag for the paddle modifiers only
bouncePaddleFlag(b, modifiers) ==
    IF modifiers # Null
    THEN [b EXCEPT
            !.isInsideCollidable = (modifiers = <<-1, 1>>),
            !.moveVector = << (b.moveVector[1] * modifiers[1] * ACCELERATION[1]) \div ACCELERATION[2],
                              (b.moveVector[2] * modifiers[2] * ACCELERATION[1]) \div ACCELERATION[2] >>]
    ELSE [b EXCEPT !.isInsideCollidable = FALSE]

\* bounce with the modifiers applied to the wrong components
bounceSwapped(b, modifiers) ==
    IF modifiers # Null
    THEN [b EXCEPT
            !.isInsideCollidable = TRUE,
            !.moveVector = << (b.moveVector[1] * modifiers[2] * ACCELERATION[1]) \div ACCELERATION[2],
                              (b.moveVector[2] * modifiers[1] * ACCELERATION[1]) \div ACCELERATION[2] >>]
    ELSE [b EXCEPT !.isInsideCollidable = FALSE]

\* Ball.bounce(modifiers)
bounce(b, modifiers) ==
    IF modifiers # Null
    THEN [b EXCEPT
            !.isInsideCollidable = TRUE,
            !.moveVector = << (b.moveVector[1] * modifiers[1] * ACCELERATION[1]) \div ACCELERATION[2],
                              (b.moveVector[2] * modifiers[2] * ACCELERATION[1]) \div ACCELERATION[2] >>]
    ELSE [b EXCEPT !.isInsideCollidable = FALSE]

\* Ball.moveUpdate(deltaTime)
BallMoveUpdate(ds, b, dt, rnd) ==
    LET det == detectCollision(ds, b, rnd)
        bounced == bounce(det.ball, det.modifiers)
    IN  [bounced EXCEPT
            !.translation = << @[1] + PixelsPerSecTimes(dt) * bounced.moveVector[1],
                               @[2] + PixelsPerSecTimes(dt) * bounced.moveVector[2] >>]

\* registerCollisionObject that pushes before it tests
registerCollisionObjectPushFirst(ds, b, obj) ==
    IF ~IsDrawableRef(obj, ds)
    THEN [thrown |-> "Object must be of type Drawable",
          ball |-> [b EXCEPT !.collidables = Append(@, 0)]]
    ELSE [thrown |-> "none", ball |-> [b EXCEPT !.collidables = Append(@, obj.ref)]]

\* Ball.registerCollisionObject(obj): the error it throws and the ball it leaves
registerCollisionObject(ds, b, obj) ==
    IF ~IsDrawableRef(obj, ds)
    THEN [thrown |-> "Object must be of type Drawable", ball |-> b]
    ELSE [thrown |-> "none", ball |-> [b EXCEPT !.collidables = Append(@, obj.ref)]]

-----------------------------------------------------------------------------
(* The script *)

\* the Math.random() values one constructor or one reset may read
Randoms == [x : RandomX, y : RandomY, rgb : RandomRGB]
\* the Math.random() values the constructors of the two paddles may read
PlankRandoms == {rnd \in Randoms : rnd.rgb = <<3, 2, 1>>  /\ rnd.x = 2 /\ rnd.y = 0}

Center == <<(clientWidth * Scale) \div 2, (clientHeight * Scale) \div 2>>

\* the drawables.push calls that precede addNewBall
Scenery(rnd1, rnd2) ==
    IF variant = 1
    THEN << Plank(Undefined, Undefined, Color(0, 0, 0, 0), NoRandom),
            Plank([up |-> "o", down |-> "l"],
                  <<clientWidth * Scale - plankWidth, clientHeight * Scale - plankHeight>>,
                  Color(0, 0, 0, 0), NoRandom),
            Drawable("DrawableTexture", Center, Color(0, 0, 0, 1), NoRandom),
            Drawable("Drawable", <<(clientWidth * Scale) \div 2, 0>>, Color(0, 0, 0, 1), NoRandom) >>
    ELSE << Plank(Undefined, Undefined, Undefined, rnd1),
            Plank([up |-> "o", down |-> "l"],
                  <<clientWidth * Scale - plankWidth, clientHeight * Scale - plankHeight>>,
                  Undefined, rnd2),
            Drawable("Drawable", Center, Color(1, 0, 0, 1), NoRandom),
            Drawable("Drawable", Center, Color(0, 0, 1, 1), NoRandom),
            Drawable("Drawable", <<(clientWidth * Scale) \div 2, 0>>, Color(0, 0, 0, 1), NoRandom) >>

\* addNewBall that registers the first paddle only
addNewBallOnePaddle(ds, color, rnd) ==
    LET ball == Ball(Center, Undefined, color, rnd)
        r1 == registerCollisionObject(ds, ball, [ref |-> 1])
    IN  IF r1.thrown # "none" THEN [thrown |-> r1.thrown, drawables |-> ds, calls |-> 1]
        ELSE [thrown |-> "none", drawables |-> Append(ds, r1.ball), calls |-> 1]

\* addNewBall(drawables, color): the list it leaves and the error it throws
addNewBall(ds, color, rnd) ==
    LET ball == Ball(Center, Undefined, color, rnd)
        r1 == registerCollisionObject(ds, ball, [ref |-> 1])
        r2 == registerCollisionObject(ds, r1.ball, [ref |-> 2])
    IN  IF r1.thrown # "none" THEN [thrown |-> r1.thrown, drawables |-> ds, calls |-> 1]
        ELSE IF r2.thrown # "none" THEN [thrown |-> r2.thrown, drawables |-> ds, calls |-> 2]
        ELSE [thrown |-> "none", drawables |-> Append(ds, r2.ball), calls |-> 2]

Balls(ds) == {i \in 1 .. Len(ds) : ds[i].class = "Ball"}

\* obj.moveUpdate(deltaTime) for obj = ds[i]: the entities it may leave (one for
\* each outcome of the Math.random() calls it makes; none when the result
\* is not exact in 1/Scale)
moveUpdate(ds, i, dt) ==
    LET d == ds[i]
    IN  IF d.class = "Plank" THEN {PlankMoveUpdate(d, dt)}
        ELSE IF d.class = "Ball"
        THEN IF Resamples(ds, d)
             THEN {BallMoveUpdate(ds, d, dt, rnd) : rnd \in Randoms}
             ELSE IF detectCollision(ds, d, NoRandom).modifiers # Null
                     /\ ~(Exact(d.moveVector[1]) /\ Exact(d.moveVector[2]))
             THEN {}
             ELSE {BallMoveUpdate(ds, d, dt, NoRandom)}
        ELSE {d}

\* the update loop with every ball's translation one shared array
RECURSIVE UpdateAllSharedCenter(_, _, _)
UpdateAllSharedCenter(ds, i, dt) ==
    IF i > Len(ds) THEN {ds}
    ELSE UNION { UpdateAllSharedCenter(
                     [k \in 1 .. Len(ds) |->
                         IF k = i THEN d
                         ELSE IF d.class = "Ball" /\ ds[k].class = "Ball"
                         THEN [ds[k] EXCEPT !.translation = d.translation]
                         ELSE ds[k]],
                     i + 1, dt) : d \in moveUpdate(ds, i, dt) }

\* for (var obj of drawables) obj.moveUpdate(deltaTime), from entity i on:
\* the lists the loop may leave
RECURSIVE UpdateAll(_, _, _)
UpdateAll(ds, i, dt) ==
    IF i > Len(ds) THEN {ds}
    ELSE UNION { UpdateAll([ds EXCEPT ![i] = d], i + 1, dt) : d \in moveUpdate(ds, i, dt) }

\* one loop that draws each entity, then updates it
CallsDrawFirst(n) ==
    [k \in 1 .. 2 * n |-> IF k % 2 = 1 THEN <<"draw", (k + 1) \div 2>>
                                        ELSE <<"moveUpdate", k \div 2>>]

\* the moveUpdate and draw calls of one drawScene, in order: the first variant
\* runs two loops, the second calls both in one loop
Calls(n) ==
    IF variant = 1
    THEN [k \in 1 .. 2 * n |-> IF k <= n THEN <<"moveUpdate", k>> ELSE <<"draw", k - n>>]
    ELSE [k \in 1 .. 2 * n |-> IF k % 2 = 1 THEN <<"moveUpdate", (k + 1) \div 2>>
                                              ELSE <<"draw", k \div 2>>]

-----------------------------------------------------------------------------
(* History: what the last moveUpdate of each ball did *)

\* of an entity that has had no moveUpdate, or is no ball
NewHist == [last |-> "new", prev |-> "new", flagged |-> FALSE, within |-> FALSE,
            paddle |-> 0, run |-> 0, runBounces |-> 0]

Min(S) == CHOOSE m \in S : \A n \in S : m <= n

\* the history of ball b after its moveUpdate with the entities ds:
\*   last        the return detectCollision took;
\*   prev        the return it took in the update before;
\*   flagged     isInsideCollidable when the update began;
\*   within      whether the expanded rectangle of a collidable held the ball
\*               when the update began;
\*   paddle      the collidable whose expanded rectangle held the ball when the
\*               update began, the ball being away from the top and bottom walls
\*               (0: none);
\*   run         how many updates in a row, this one the last, began so with
\*               that same collidable;
\*   runBounces  how many of them returned the paddle modifiers.
NextHist(h, ds, b) ==
    LET out == Outcome(ds, b)
        inside == {c \in {b.collidables[k] : k \in 1 .. Len(b.collidables)} : Within(b, ds[c])}
        away == 0 < b.translation[2] /\ b.translation[2] < clientHeight * Scale
        cont == away /\ h.paddle \in inside
        start == away /\ inside # {}
        hit == IF (cont \/ start) /\ out = "paddle" THEN 1 ELSE 0
    IN  [last |-> out, prev |-> h.last, flagged |-> b.isInsideCollidable,
         within |-> inside # {},
         paddle |-> IF cont THEN h.paddle ELSE IF start THEN Min(inside) ELSE 0,
         run |-> IF cont THEN h.run + 1 ELSE IF start THEN 1 ELSE 0,
         runBounces |-> (IF cont THEN h.runBounces ELSE 0) + hit]

\* the entities ball i reads in its moveUpdate of the frame that takes
\* before to after: those before it in the list are updated already
ViewAt(before, after, i) ==
    [k \in 1 .. Len(before) |-> IF k < i THEN after[k] ELSE before[k]]

-----------------------------------------------------------------------------
(* Initial state: the script has run to its end *)

Init ==
    /\ variant \in {1, 2}
    /\ \E rnd1 \in PlankRandoms, rnd2 \in PlankRandoms, rnd3 \in Randoms :
          drawables = addNewBall(Scenery(rnd1, rnd2),
                                 IF variant = 1 THEN Color(1, 0, 0, 1) ELSE Undefined,
                                 rnd3).drawables
    /\ then = 0
    /\ pending = 1
    /\ frames = 0
    /\ frameLog = <<>>
    /\ presses = 0
    /\ thrown = "none"
    /\ registered = [calls |-> 2, ball |-> Len(drawables), obj |-> [ref |-> 2]]
    /\ hist = [i \in 1 .. Len(drawables) |-> NewHist]
    /\ lastEvent = [k \in BoundKeys |-> "none"]

-----------------------------------------------------------------------------
(* Handlers *)

\* drawScene(now), called by requestAnimationFrame with now = then + dt
drawScene(dt) ==
    /\ pending > 0
    /\ frames < MaxFrames
    /\ then' = then + dt
    /\ drawables' \in UpdateAll(drawables, 1, (then + dt) - then)
    /\ frameLog' = Calls(Len(drawables))
    /\ pending' = (pending - 1) + 1
    /\ frames' = frames + 1
    /\ thrown' = "none"
    /\ hist' = [i \in 1 .. Len(drawables) |->
                   IF drawables[i].class = "Ball"
                   THEN NextHist(hist[i], ViewAt(drawables, drawables', i), drawables[i])
                   ELSE hist[i]]
    /\ UNCHANGED <<variant, presses, registered, lastEvent>>

\* the keydown (value TRUE) and keyup (value FALSE) listeners of every Plank
KeyEvent(key, value) ==
    /\ drawables' = [i \in 1 .. Len(drawables) |->
                        IF drawables[i].class = "Plank"
                        THEN SetKey(drawables[i], key, value) ELSE drawables[i]]
    /\ thrown' = "none"
    /\ lastEvent' = [lastEvent EXCEPT ![key] = IF value THEN "keydown" ELSE "keyup"]
    /\ UNCHANGED <<variant, then, pending, frames, frameLog, presses, registered, hist>>

KeyDown(keys) == \E key \in keys : KeyEvent(key, TRUE)

KeyUp(keys) == \E key \in keys : KeyEvent(key, FALSE)

\* the keypress listener
KeyPress ==
    \E key \in PressKeys :
        IF key = Backtick
        THEN /\ Cardinality(Balls(drawables)) < MaxBalls
             /\ \E rnd \in Randoms :
                   LET r == addNewBall(drawables, Undefined, rnd)
                   IN  /\ drawables' = r.drawables
                       /\ thrown' = r.thrown
                       /\ registered' = [calls |-> registered.calls + r.calls,
                                         ball |-> Len(drawables) + 1, obj |-> [ref |-> 2]]
             /\ hist' = Append(hist, NewHist)
             /\ presses' = presses + 1
             /\ UNCHANGED <<variant, then, pending, frames, frameLog, lastEvent>>
        ELSE /\ thrown' = "none"
             /\ UNCHANGED <<variant, drawables, then, pending, frames, frameLog, presses,
                            registered, hist, lastEvent>>

\* values handed to registerCollisionObject: the entities, null and a plain object
Objects(ds) == {[ref |-> i] : i \in 1 .. Len(ds)} \cup {[value |-> "null"], [value |-> "object"]}

\* ball.registerCollisionObject(obj), called on a ball of the list
Register ==
    \E i \in Balls(drawables), obj \in Objects(drawables) :
        LET r == registerCollisionObject(drawables, drawables[i], obj)
        IN  /\ registered.calls < MaxRegisterCalls
            /\ Len(drawables[i].collidables) < MaxCollidables
            /\ drawables' = [drawables EXCEPT ![i] = r.ball]
            /\ thrown' = r.thrown
            /\ registered' = [calls |-> registered.calls + 1, ball |-> i, obj |-> obj]
            /\ UNCHANGED <<variant, then, pending, frames, frameLog, presses, hist, lastEvent>>

DrawScene == \E dt \in DeltaTimes : drawScene(dt)

\* the script with one paddle key in use and balls spawned
Next == DrawScene \/ KeyDown(PlayKeys) \/ KeyUp(PlayKeys) \/ KeyPress

Spec == Init /\ [][Next]_vars

\* the script with every paddle key in use and no ball spawned
NextKeys == DrawScene \/ KeyDown(Keys) \/ KeyUp(Keys)

SpecKeys == Init /\ [][NextKeys]_vars

\* registerCollisionObject called on the balls, and balls spawned
NextRegister == Register \/ KeyPress

SpecRegister == Init /\ [][NextRegister]_vars

-----------------------------------------------------------------------------
(* Vocabulary of the properties *)

\* a step that is one invocation of drawScene, and its deltaTime in ticks
FrameStep == frames' = frames + 1
DeltaTime == then' - then

\* rate * deltaTime, in fixed point
RateTimes(dt) == PixelsPerSecTimes(dt) * Scale

Sign(v) == IF v > 0 THEN 1 ELSE IF v < 0 THEN -1 ELSE 0

\* v scaled by the acceleration factor of the variant
Accelerated(v) == (v * (IF variant = 1 THEN 11 ELSE 101)) \div (IF variant = 1 THEN 10 ELSE 100)

\* the keys the paddles are bound to: "w"/"s" for the first, "o"/"l" for the second
UpKey(i) == IF i = 1 THEN "w" ELSE "o"
DownKey(i) == IF i = 1 THEN "s" ELSE "l"
Held(p, key) == key \in DOMAIN p.keysPressed /\ p.keysPressed[key] = TRUE

\* the ball at position pos lies in the rectangle of the paddle at position at,
\* expanded by half the ball's diameter on all sides, boundary included
InExpandedRect(pos, at) ==
    LET half == (clientHeight * 25 * Scale) \div 2000
        width == (clientWidth * 25 * Scale) \div 1000
        height == (clientHeight * 25 * Scale) \div 100
    IN  /\ at[1] - half <= pos[1] /\ pos[1] <= at[1] + width + half
        /\ at[2] - half <= pos[2] /\ pos[2] <= at[2] + height + half

\* The cases of the collision test for ball i in a frame step.  The paddles
\* come before the balls in the entity list, so the ball meets them where the
\* frame has moved them.
PaddleCase(i) ==
    /\ ~drawables[i].isInsideCollidable
    /\ \E c \in {1, 2} : InExpandedRect(drawables[i].translation, drawables'[c].translation)
AtTopOrBottom(i) ==
    drawables[i].translation[2] <= 0 \/ drawables[i].translation[2] >= clientHeight * Scale
AtSide(i) ==
    drawables[i].translation[1] <= 0 \/ drawables[i].translation[1] >= clientWidth * Scale
WallCase(i) == ~PaddleCase(i) /\ AtTopOrBottom(i)
SideCase(i) == ~PaddleCase(i) /\ ~AtTopOrBottom(i) /\ AtSide(i)
NoCase(i) == ~PaddleCase(i) /\ ~AtTopOrBottom(i) /\ ~AtSide(i)

\* the position a frame of deltaTime dt leaves a ball that began the motion
\* at from with velocity v
Moved(from, v, dt) ==
    << from[1] + PixelsPerSecTimes(dt) * v[1], from[2] + PixelsPerSecTimes(dt) * v[2] >>

\* a velocity and a colour as the resets and the constructors sample them
SampledVector(v) == v[1] \in {Scale, -Scale} /\ 2 * v[2] >= -Scale /\ 2 * v[2] <= Scale
SampledColor(c) == (\A k \in 1 .. 3 : c[k] \in 0 .. RandDen - 1) /\ c[4] = RandDen

-----------------------------------------------------------------------------
(* C1 *)

\* C1: in every frame, from any position, a paddle's Y changes by
\* +rate*deltaTime if its up key is held, by -rate*deltaTime if its down key is
\* held, by the sum of both (0) if both are, by nothing if neither is; its X
\* never changes.
C1_PaddleMoves ==
    [][FrameStep =>
        \A i \in {1, 2} :
            LET p == drawables[i]
                q == drawables'[i]
                up == IF Held(p, UpKey(i)) THEN RateTimes(DeltaTime) ELSE 0
                down == IF Held(p, DownKey(i)) THEN RateTimes(DeltaTime) ELSE 0
            IN  /\ q.translation[1] = p.translation[1]
                /\ q.translation[2] = p.translation[2] + up - down]_vars

\* both paddles have left the field, the first below 0 by two frames of its
\* down key, the second beyond the field height by its up key, and the first
\* has both of its keys held
C1_Witness ==
    /\ drawables[1].translation[2] = - 2 * RateTimes(475)
    /\ drawables[2].translation[2] > clientHeight * Scale
    /\ Held(drawables[1], "w") /\ Held(drawables[1], "s")
    /\ frames = 3 /\ then = 3 * 475

-----------------------------------------------------------------------------
(* C2 *)

\* C2: a frame update that applies a bounce flips the sign of exactly one
\* velocity component: a paddle collision flips X and keeps Y, a top/bottom
\* wall contact flips Y and keeps X; an update that applies no bounce and no
\* reset flips neither.
C2_OneAxisFlips ==
    [][FrameStep =>
        \A i \in Balls(drawables) :
            LET v == drawables[i].moveVector
                w == drawables'[i].moveVector
            IN  /\ PaddleCase(i) => Sign(w[1]) = - Sign(v[1]) /\ Sign(w[2]) = Sign(v[2])
                /\ WallCase(i) => Sign(w[1]) = Sign(v[1]) /\ Sign(w[2]) = - Sign(v[2])
                /\ NoCase(i) => Sign(w[1]) = Sign(v[1]) /\ Sign(w[2]) = Sign(v[2])]_vars

\* one ball has just bounced off a paddle and another off a wall, and both
\* still move in both axes
C2_Witness ==
    \E i \in Balls(drawables), j \in Balls(drawables) :
        /\ hist[i].last = "paddle" /\ hist[j].last = "wall"
        /\ drawables[i].moveVector[2] # 0 /\ drawables[j].moveVector[1] # 0

-----------------------------------------------------------------------------
(* C3 *)

\* C3 as stated: a frame update that begins with the ball at or beyond a side
\* edge, neither the paddle case nor the wall case matching, leaves the ball
\* exactly at the field centre, for every deltaTime.
C3_Original ==
    [][FrameStep =>
        \A i \in Balls(drawables) :
            SideCase(i) => drawables'[i].translation = Center]_vars

\* C3, amended: such a frame update leaves the ball with a newly sampled
\* velocity and colour, at the field centre displaced by the motion of that
\* same frame with the new velocity (at the centre itself when deltaTime = 0).
C3_ResetThenMove ==
    [][FrameStep =>
        \A i \in Balls(drawables) :
            SideCase(i) =>
                /\ SampledVector(drawables'[i].moveVector)
                /\ SampledColor(drawables'[i].color)
                /\ drawables'[i].translation =
                       Moved(<<(clientWidth * Scale) \div 2, (clientHeight * Scale) \div 2>>,
                             drawables'[i].moveVector, DeltaTime)]_vars

\* a ball has been reset in a frame of positive deltaTime: it is away from
\* the centre by that frame's motion
C3_Witness ==
    \E i \in Balls(drawables) :
        /\ hist[i].last = "reset"
        /\ drawables[i].translation # Center
        /\ drawables[i].translation = Moved(Center, drawables[i].moveVector, 475)

-----------------------------------------------------------------------------
(* C4 *)

\* C4: over a run of consecutive frame updates that each begin with the ball
\* inside the same paddle's expanded rectangle and away from the top and
\* bottom walls, the paddle bounce is applied at most once, and only in the
\* first frame of the run.
C4_Original ==
    \A i \in Balls(drawables) :
        /\ hist[i].runBounces <= 1
        /\ hist[i].run > 1 => hist[i].last # "paddle"

-----------------------------------------------------------------------------
(* C5 *)

\* ball i lies in the expanded rectangle of a paddle as the frame has moved it
InsideAPaddle(i) ==
    \E c \in {1, 2} : InExpandedRect(drawables[i].translation, drawables'[c].translation)

\* C5 as stated: a frame update that begins with the ball inside a paddle's
\* expanded rectangle and the flag false flips the sign of velocity X and
\* leaves the flag true; and if the ball is still inside the rectangle when
\* the next frame update begins, that update flips the sign of velocity X again.
C5_Original ==
    [][FrameStep =>
        \A i \in Balls(drawables) :
            LET v == drawables[i].moveVector
                w == drawables'[i].moveVector
            IN  /\ PaddleCase(i) =>
                    Sign(w[1]) = - Sign(v[1]) /\ drawables'[i].isInsideCollidable
                /\ hist[i].last = "paddle" /\ InsideAPaddle(i) =>
                    Sign(w[1]) = - Sign(v[1])]_vars

\* C5, amended: the first frame update flips X, scales both components by the
\* acceleration factor and leaves the flag true.  The frame update that
\* follows it begins with the flag true and applies no paddle bounce, wherever
\* the ball is: at or beyond the top or bottom edge it applies the wall bounce
\* (the sign of X kept), at or beyond a side edge it resets the ball, and
\* otherwise it leaves the velocity as it is; it clears the flag unless it
\* was a wall bounce.  X is flipped again in the update after that one, if
\* the ball is then inside the rectangle.
C5_NextFrameSkips ==
    [][FrameStep =>
        \A i \in Balls(drawables) :
            LET v == drawables[i].moveVector
                w == drawables'[i].moveVector
                flag == drawables'[i].isInsideCollidable
            IN  /\ PaddleCase(i) =>
                    w = << - Accelerated(v[1]), Accelerated(v[2]) >> /\ flag
                /\ hist[i].last = "paddle" =>
                    /\ drawables[i].isInsideCollidable
                    /\ IF AtTopOrBottom(i)
                       THEN w = << Accelerated(v[1]), - Accelerated(v[2]) >> /\ flag
                       ELSE IF AtSide(i)
                       THEN SampledVector(w) /\ ~flag
                       ELSE w = v /\ ~flag
                /\ hist[i].prev = "paddle" /\ hist[i].last = "none" /\ InsideAPaddle(i) =>
                    w = << - Accelerated(v[1]), Accelerated(v[2]) >> /\ flag]_vars

\* a ball bounced off a paddle, stayed inside its rectangle through the next
\* update, which left its velocity alone and cleared the flag, and is inside
\* it still
C5_Witness ==
    \E i \in Balls(drawables) :
        /\ hist[i].prev = "paddle" /\ hist[i].last = "none"
        /\ hist[i].run >= 2 /\ hist[i].runBounces = 1
        /\ ~drawables[i].isInsideCollidable
        /\ \E c \in {1, 2} : InExpandedRect(drawables[i].translation, drawables[c].translation)

-----------------------------------------------------------------------------
(* C6 *)

\* C6: a frame update applies at most one of paddle bounce, wall bounce and
\* side-wall reset, the first that matches in that order: with the ball in a
\* paddle's expanded rectangle and the flag false, only the paddle bounce (Y
\* keeps its sign, no reset) even at or beyond an edge; else at or beyond the
\* top or bottom edge, only the wall bounce (no reset) even at or beyond a
\* side edge; else at or beyond a side edge, only the reset; else nothing.
C6_FirstMatchOnly ==
    [][FrameStep =>
        \A i \in Balls(drawables) :
            LET b == drawables[i]
                a == drawables'[i]
                v == b.moveVector
                w == a.moveVector
            IN  /\ PaddleCase(i) =>
                    /\ w = << - Accelerated(v[1]), Accelerated(v[2]) >>
                    /\ a.translation = Moved(b.translation, w, DeltaTime)
                    /\ a.color = b.color
                /\ WallCase(i) =>
                    /\ w = << Accelerated(v[1]), - Accelerated(v[2]) >>
                    /\ a.translation = Moved(b.translation, w, DeltaTime)
                    /\ a.color = b.color
                /\ SideCase(i) =>
                    /\ SampledVector(w)
                    /\ a.translation = Moved(Center, w, DeltaTime)
                /\ NoCase(i) =>
                    /\ w = v
                    /\ a.translation = Moved(b.translation, w, DeltaTime)
                    /\ a.color = b.color]_vars

\* one ball took the paddle bounce at the top edge, inside the first paddle's
\* rectangle, and another the wall bounce in a corner of the field, at the
\* bottom edge and beyond the left one
C6_Witness ==
    \E i \in Balls(drawables), j \in Balls(drawables) :
        /\ hist[i].last = "paddle" /\ ~hist[i].flagged
        /\ drawables[i].translation[2] <= 0
        /\ InExpandedRect(drawables[i].translation, drawables[1].translation)
        /\ hist[j].last = "wall"
        /\ drawables[j].translation[1] <= 0
        /\ drawables[j].translation[2] >= clientHeight * Scale
        /\ then = 950

-----------------------------------------------------------------------------
(* C7 *)

\* the value is an entity of the list, an instance of Drawable
IsEntity(obj) == "ref" \in DOMAIN obj

\* C7: a call of registerCollisionObject on a ball with a value that is not a
\* Drawable throws and leaves the ball's collidables as they were; with a
\* Drawable it throws nothing and leaves the collidables with exactly that
\* entity appended.  No other ball's collidables change.
C7_RegisterChecksType ==
    [][registered'.calls = registered.calls + 1 =>
        LET i == registered'.ball
            obj == registered'.obj
            old == drawables[i].collidables
            new == drawables'[i].collidables
        IN  /\ IF IsEntity(obj)
               THEN thrown' = "none" /\ new = Append(old, obj.ref)
               ELSE thrown' = "Object must be of type Drawable" /\ new = old
            /\ \A j \in Balls(drawables) \ {i} :
                   drawables'[j].collidables = drawables[j].collidables]_vars

\* a ball has had a third entity registered, and the last call, on another
\* ball with null, has thrown
C7_Witness ==
    /\ thrown = "Object must be of type Drawable"
    /\ registered.obj = [value |-> "null"]
    /\ Len(drawables[registered.ball].collidables) = 2
    /\ \E j \in Balls(drawables) : Len(drawables[j].collidables) = 3

-----------------------------------------------------------------------------
(* C8 *)

\* the places of the log where entity k has the call named op
Places(log, op, k) == {n \in 1 .. Len(log) : log[n] = <<op, k>>}

\* every entity is updated once and drawn once, after its own update
OncePerEntity(log, n) ==
    /\ Len(log) = 2 * n
    /\ \A k \in 1 .. n :
          /\ Cardinality(Places(log, "moveUpdate", k)) = 1
          /\ Cardinality(Places(log, "draw", k)) = 1
          /\ \A u \in Places(log, "moveUpdate", k), d \in Places(log, "draw", k) : u < d

\* no entity is drawn before every entity is updated
UpdatesBeforeDraws(log) ==
    \A u \in 1 .. Len(log), d \in 1 .. Len(log) :
        log[u][1] = "moveUpdate" /\ log[d][1] = "draw" => u < d

\* a ball with no collision case to take is displaced by its velocity over
\* the time since the invocation before
MovesByDeltaTime ==
    \A i \in Balls(drawables) :
        NoCase(i) => drawables'[i].translation =
                         Moved(drawables[i].translation, drawables[i].moveVector, then' - then)

\* C8 as stated: each invocation of drawScene measures deltaTime from the
\* invocation before (from 0 for the first), updates every entity once, then
\* draws every entity once, no entity drawn before all are updated, and
\* leaves exactly one invocation scheduled.
C8_Original ==
    [][FrameStep =>
        /\ frames = 0 => then = 0
        /\ MovesByDeltaTime
        /\ OncePerEntity(frameLog', Len(drawables))
        /\ UpdatesBeforeDraws(frameLog')
        /\ pending = 1 /\ pending' = 1]_vars

\* C8, amended: each invocation of drawScene measures deltaTime from the
\* invocation before (from 0 for the first), updates every entity once and
\* draws every entity once, each after its own update, and leaves exactly one
\* invocation scheduled.  In the first variant of the script no entity is
\* drawn before all are updated; in the second each entity is drawn right
\* after its own update, before the entities after it are updated.
C8_DrawAfterOwnUpdate ==
    [][FrameStep =>
        /\ frames = 0 => then = 0
        /\ MovesByDeltaTime
        /\ OncePerEntity(frameLog', Len(drawables))
        /\ variant = 1 => UpdatesBeforeDraws(frameLog')
        /\ variant = 2 =>
              \A k \in 1 .. Len(drawables) :
                  Places(frameLog', "draw", k) = {2 * k}
        /\ pending = 1 /\ pending' = 1]_vars

\* the second variant has run frames over two balls, time passing
C8_Witness ==
    /\ variant = 2 /\ frames >= 2 /\ then > 0 /\ pending = 1
    /\ Cardinality(Balls(drawables)) = 2
    /\ Len(frameLog) = 2 * Len(drawables)
    /\ frameLog[2] = <<"draw", 1>>

-----------------------------------------------------------------------------
(* C9 *)

\* a step that is one press of the key that spawns a ball
SpawnStep == presses' = presses + 1

\* the entities ds after n presses of the spawn key
PaddlesAndBalls(ds, n) ==
    /\ Cardinality(Balls(ds)) = 1 + n
    /\ ds[1].class = "Plank" /\ ds[2].class = "Plank"
    /\ \A i \in Balls(ds) : ds[i].collidables = <<1, 2>>

\* C9: through frames, key-down and key-up events and key presses, the balls
\* number 1 plus the presses of the spawn key, the first two entities are the
\* two paddles and every ball's collidables are exactly those two, in order;
\* a press of the spawn key appends one ball at the field center with its
\* flag false and leaves every entity there was as it was; no other step
\* changes the length of the entity list.
C9_BallsGrowByPress ==
    [][/\ PaddlesAndBalls(drawables, presses)
       /\ PaddlesAndBalls(drawables', presses')
       /\ IF SpawnStep
          THEN /\ Len(drawables') = Len(drawables) + 1
               /\ SubSeq(drawables', 1, Len(drawables)) = drawables
               /\ LET ball == drawables'[Len(drawables')]
                  IN  /\ ball.class = "Ball"
                      /\ ball.translation = << (clientWidth * Scale) \div 2,
                                               (clientHeight * Scale) \div 2 >>
                      /\ ~ball.isInsideCollidable
          ELSE Len(drawables') = Len(drawables)]_vars

\* a ball was spawned by a press, and a ball that left the field by a side
\* is still in the list, reset
C9_Witness ==
    /\ presses = 1
    /\ Cardinality(Balls(drawables)) = 2
    /\ \E i \in Balls(drawables) : hist[i].last = "reset"
    /\ \E i \in {1, 2} : Held(drawables[i], "w")

-----------------------------------------------------------------------------
(* C10 *)

\* C10 as stated: a frame update takes a ball's flag from true to false only
\* when none of the cases a, b, c of the collision test matches; a side-wall
\* reset and a wall bounce never clear a flag that was true.
C10_Original ==
    [][FrameStep =>
        \A i \in Balls(drawables) :
            drawables[i].isInsideCollidable /\ ~drawables'[i].isInsideCollidable
                => NoCase(i)]_vars

\* C10, amended: a frame update takes a ball's flag from true to false
\* exactly when the collision test returns no modifier: when none of the
\* cases a, b, c matches, and also when it performs the side-wall reset.  A
\* wall bounce never clears a flag that was true.
C10_ClearedWithoutModifier ==
    [][FrameStep =>
        \A i \in Balls(drawables) :
            /\ drawables[i].isInsideCollidable =>
                  (~drawables'[i].isInsideCollidable <=> NoCase(i) \/ SideCase(i))
            /\ drawables[i].isInsideCollidable /\ WallCase(i) =>
                  drawables'[i].isInsideCollidable]_vars

\* a ball was reset at a side wall in an update that it began with the flag
\* true, and another kept the flag true through a wall bounce
C10_Witness ==
    /\ \E i \in Balls(drawables) :
          hist[i].last = "reset" /\ hist[i].flagged /\ ~drawables[i].isInsideCollidable
    /\ \E j \in Balls(drawables) :
          hist[j].last = "wall" /\ hist[j].flagged /\ drawables[j].isInsideCollidable

-----------------------------------------------------------------------------
(* C11 *)

\* C11: in every frame update that a ball begins at or beyond the top or
\* bottom edge, the paddle case not matching, velocity Y is negated and both
\* components are scaled by the acceleration factor, whether the flag is
\* true or false and whether or not the update before was a wall bounce
\* too: a ball that stays at the edge is bounced in each frame.
C11_WallBounceEveryFrame ==
    [][FrameStep =>
        \A i \in Balls(drawables) :
            LET v == drawables[i].moveVector
                w == drawables'[i].moveVector
                bounced == w = << Accelerated(v[1]), - Accelerated(v[2]) >>
            IN  /\ WallCase(i) => bounced
                /\ drawables[i].isInsideCollidable /\ AtTopOrBottom(i) => bounced
                /\ hist[i].last = "wall" /\ AtTopOrBottom(i) => bounced]_vars

\* a ball at the top edge took the wall bounce in two updates in a row, the
\* first with the flag false and the second with the flag true
C11_Witness ==
    \E i \in Balls(drawables) :
        /\ hist[i].prev = "wall" /\ hist[i].last = "wall" /\ hist[i].flagged
        /\ drawables[i].translation[2] <= 0
        /\ drawables[i].moveVector[2] = - Accelerated(Accelerated(Scale \div 2))

-----------------------------------------------------------------------------
(* C12 *)

\* the displacement in Y of a paddle in a frame of deltaTime dt when the last
\* events of its keys are those of the record last
ByLastEvents(i, last, dt) ==
    (IF last[UpKey(i)] = "keydown" THEN RateTimes(dt) ELSE 0)
        - (IF last[DownKey(i)] = "keydown" THEN RateTimes(dt) ELSE 0)

\* C12: after any sequence of key-down and key-up events and frames, the two
\* paddles hold the same pressed value for every key: true exactly when the
\* last event for the key was a key-down, no value when the key has had no
\* event.  A key event changes no position and no velocity of any entity,
\* and a frame moves each paddle by what the last events before it say.
C12_OneInputState ==
    [][/\ drawables[1].keysPressed = drawables[2].keysPressed
       /\ drawables'[1].keysPressed = drawables'[2].keysPressed
       /\ \A key \in BoundKeys, i \in {1, 2} :
             /\ Held(drawables'[i], key) <=> lastEvent'[key] = "keydown"
             /\ key \in DOMAIN drawables'[i].keysPressed <=> lastEvent'[key] # "none"
       /\ ~FrameStep =>
             \A i \in 1 .. Len(drawables) :
                 /\ drawables'[i].translation = drawables[i].translation
                 /\ drawables'[i].moveVector = drawables[i].moveVector
       /\ FrameStep =>
             \A i \in {1, 2} :
                 /\ drawables'[i].keysPressed = drawables[i].keysPressed
                 /\ drawables'[i].translation =
                        << drawables[i].translation[1],
                           drawables[i].translation[2] + ByLastEvents(i, lastEvent, DeltaTime) >>
      ]_vars

\* the first paddle's up key was pressed, held through a frame and released,
\* the second paddle's up key is down, and a frame has moved the second
\* paddle since
C12_Witness ==
    /\ lastEvent["w"] = "keyup" /\ lastEvent["o"] = "keydown" /\ lastEvent["s"] = "none"
    /\ drawables[1].translation[2] > 0
    /\ drawables[2].translation[2] > (clientHeight * Scale) - plankHeight
    /\ Held(drawables[1], "o") /\ ~Held(drawables[2], "w")

-----------------------------------------------------------------------------
(* C13 *)

\* C13: after every frame update of a ball its flag is true exactly when the
\* update applied a bounce, off a paddle or off the top or bottom wall; so a
\* wall bounce sets the flag too, and the update that follows a bounce of
\* either kind applies no paddle bounce, also when the ball is inside a
\* paddle's expanded rectangle.
C13_FlagIffBounced ==
    [][FrameStep =>
        \A i \in Balls(drawables) :
            LET v == drawables[i].moveVector
                w == drawables'[i].moveVector
                offPaddle == w = << - Accelerated(v[1]), Accelerated(v[2]) >>
                offWall == w = << Accelerated(v[1]), - Accelerated(v[2]) >>
                flag == drawables'[i].isInsideCollidable
            IN  /\ flag <=> (offPaddle \/ offWall)
                /\ flag <=> (PaddleCase(i) \/ WallCase(i))
                /\ WallCase(i) => offWall /\ flag
                /\ hist[i].last \in {"paddle", "wall"} =>
                      drawables[i].isInsideCollidable /\ ~offPaddle]_vars

\* a ball took a wall bounce, and began the update after it inside a
\* paddle's expanded rectangle with the flag true: no paddle bounce
C13_Witness ==
    \E i \in Balls(drawables) :
        /\ hist[i].prev = "wall"
        /\ hist[i].within /\ hist[i].flagged
        /\ hist[i].last # "paddle"

-----------------------------------------------------------------------------
(* C14 *)

Abs(v) == IF v < 0 THEN - v ELSE v

\* a velocity as randomMoveVector draws it: |X| = 1, |Y| <= 0.5
UnitVector(v) == Abs(v[1]) = Scale /\ 2 * Abs(v[2]) <= Scale

\* C14: the magnitude of every ball's velocity X is at least 1 in every
\* state; it is exactly 1, with |Y| <= 0.5, when the ball is created and
\* right after a side-wall reset; every bounce multiplies the magnitude of
\* both components by the acceleration factor; an update with neither, and
\* every step that is no frame, leaves the velocity as it was.
C14_SpeedNeverBelowOne ==
    [][/\ \A i \in Balls(drawables) :
             /\ Abs(drawables[i].moveVector[1]) >= Scale
             /\ hist[i].last = "new" => UnitVector(drawables[i].moveVector)
       /\ \A i \in Balls(drawables') : Abs(drawables'[i].moveVector[1]) >= Scale
       /\ \A i \in Balls(drawables') \ Balls(drawables) : UnitVector(drawables'[i].moveVector)
       /\ \A i \in Balls(drawables) :
             LET v == drawables[i].moveVector
                 w == drawables'[i].moveVector
             IN  IF ~FrameStep THEN w = v
                 ELSE /\ SideCase(i) => UnitVector(w)
                      /\ PaddleCase(i) \/ WallCase(i) =>
                            /\ Abs(w[1]) = Accelerated(Abs(v[1]))
                            /\ Abs(w[2]) = Accelerated(Abs(v[2]))
                      /\ NoCase(i) => w = v]_vars

\* one ball has bounced twice since it was created, and another has been
\* reset at a side wall and not bounced since
C14_Witness ==
    \E i \in Balls(drawables), j \in Balls(drawables) :
        /\ Abs(drawables[i].moveVector[1]) = Accelerated(Accelerated(Scale))
        /\ hist[j].last = "reset" \/ (hist[j].prev = "reset" /\ hist[j].last = "none")
        /\ UnitVector(drawables[j].moveVector)

-----------------------------------------------------------------------------
(* C15 *)

\* the position a frame leaves a ball by its own case alone, from where the
\* ball began it
OwnMotion(i) ==
    Moved(IF SideCase(i) THEN << (clientWidth * Scale) \div 2, (clientHeight * Scale) \div 2 >>
                         ELSE drawables[i].translation,
          drawables'[i].moveVector, DeltaTime)

\* C15: in a frame every entity's update changes that entity alone.  A
\* paddle changes in its Y only: its X, velocity, colour, keys and pressed
\* keys stay, whatever the balls do.  The entities of the field do not
\* change.  A ball keeps its collidables, and its position is the one its
\* own case and its own velocity give, whatever the other balls do.
C15_UpdatesIsolated ==
    [][FrameStep =>
        /\ Len(drawables') = Len(drawables)
        /\ \A i \in 1 .. Len(drawables) :
              LET d == drawables[i]
                  e == drawables'[i]
              IN  /\ e.class = d.class
                  /\ d.class = "Plank" =>
                        e = [d EXCEPT !.translation = << d.translation[1], e.translation[2] >>]
                  /\ d.class = "Ball" =>
                        /\ e.collidables = d.collidables
                        /\ e.translation = OwnMotion(i)
                        /\ ~SideCase(i) => e.color = d.color
                  /\ d.class \notin {"Plank", "Ball"} => e = d]_vars

\* a frame has moved the first paddle and two balls, the balls to different
\* places
C15_Witness ==
    /\ drawables[1].translation[2] > 0
    /\ \E i \in Balls(drawables), j \in Balls(drawables) :
          /\ hist[i].last # "new" /\ hist[j].last # "new"
          /\ drawables[i].translation # drawables[j].translation
          /\ drawables[i].translation # << (clientWidth * Scale) \div 2, (clientHeight * Scale) \div 2 >>
          /\ drawables[j].translation # << (clientWidth * Scale) \div 2, (clientHeight * Scale) \div 2 >>

====
